---- MODULE Spec2Model ----
(***************************************************************************)
(* Model of the incremental statistics engine of github-profile-stats:     *)
(* the versioned cache file (cache_utils.py), the lines-changed reconciler *)
(* and the recent-commits reconciler (github_stats.py), run the way        *)
(* generate_images.main runs them.                                         *)
(***************************************************************************)
EXTENDS Integers, Sequences, FiniteSets, TLC

(***************************************************************************)
(* Bounds of the model.                                                    *)
(***************************************************************************)
\* the clock runs from 0 to MaxClock ticks
MaxClock == 1
\* complete program runs in one behaviour
MaxRuns == 2
\* length of the event list the remote returns
MaxEvents == 1
\* repositories found by discovery
MaxRepos == 2
\* pages of one edge of the repository discovery
MaxPages == 2
\* tasks awaiting accessors of one Stats object at the same time
NumTasks == 2
\* coroutines calling one Queries client at the same time
NumCallers == 2
\* the largest max_connections a client is built with
MaxConnections == 1
\* answers that make query_rest ask again, per call, while several callers run
MaxPolls == 1

(***************************************************************************)
(* Program constants.                                                      *)
(***************************************************************************)
CACHE_VERSION == 1
\* recent_commits(limit=3), called as recent_commits(3)
DefaultLimit == 3
\* head[:7]
ShortShaLen == 7
\* generate_overview awaits s.lines_changed twice
LcCallsPerRun == 2

(***************************************************************************)
(* Timestamps.  A timestamp string is a sequence of one-character strings. *)
(* The fixed-width prefix "YYYY-MM-DDTHH:MM:S" of a real timestamp is the  *)
(* same in every string and is left out; what is kept is the digit of the  *)
(* second, the optional fraction ".f" that isoformat() prints when the     *)
(* microsecond is not zero, and the closing "Z".  The clock counts ticks   *)
(* of half a second.                                                       *)
(***************************************************************************)
TicksPerSec == 2

DigitChars == <<"0", "1", "2", "3", "4", "5", "6", "7", "8", "9">>

Digit(n) == DigitChars[n + 1]

DigitVal(c) == CHOOSE n \in 0..9 : DigitChars[n + 1] = c

\* code point of a character, the order Python compares strings by
Code(c) == IF c = "." THEN 46 ELSE IF c = "Z" THEN 90 ELSE 48 + DigitVal(c)

\* datetime.isoformat() + "Z" of the instant t (in ticks)
IsoFormat(t) ==
    <<Digit(t \div TicksPerSec)>>
        \o (IF t % TicksPerSec = 0
              THEN <<>>
              ELSE <<".", Digit((t % TicksPerSec) * (10 \div TicksPerSec))>>)
        \o <<"Z">>

\* datetime.fromisoformat(s.replace("Z", "+00:00")), as an instant in ticks
FromIso(s) ==
    DigitVal(s[1]) * TicksPerSec
        + (IF Len(s) >= 3 /\ s[2] = "."
             THEN (DigitVal(s[3]) * TicksPerSec) \div 10
             ELSE 0)

\* a < b where a > b is meant
RECURSIVE StrLess(_, _)
StrLess(a, b) ==
    IF b = <<>> THEN FALSE
    ELSE IF a = <<>> THEN TRUE
    ELSE IF Code(Head(a)) # Code(Head(b)) THEN Code(Head(a)) < Code(Head(b))
    ELSE StrLess(Tail(a), Tail(b))

\* Python's a > b on strings: code points, left to right; a proper prefix is less
RECURSIVE StrGreater(_, _)
StrGreater(a, b) ==
    IF a = <<>> THEN FALSE
    ELSE IF b = <<>> THEN TRUE
    ELSE IF Code(Head(a)) # Code(Head(b)) THEN Code(Head(a)) > Code(Head(b))
    ELSE StrGreater(Tail(a), Tail(b))

(***************************************************************************)
(* Documents.  A document is a Python dict with string keys: a function    *)
(* whose domain is the set of keys present.                                *)
(***************************************************************************)
EmptyDict == [k \in {} |-> 0]

\* {**a, **b}: the keys of both, b's value where both have the key
Merge(a, b) ==
    [k \in (DOMAIN a) \cup (DOMAIN b) |-> IF k \in DOMAIN b THEN b[k] ELSE a[k]]

\* a dict that holds key and nothing else
DictOnly(d, key, val) == [k \in {key} |-> val]

\* d[key] = val on a dict
DictSet(d, key, val) == Merge(d, [k \in {key} |-> val])

\* Optional values: <<>> is None, <<v>> is v
None == <<>>

Some(v) == <<v>>

\* d.get(key)
DictGet(d, key) == IF key \in DOMAIN d THEN Some(d[key]) ELSE None

(***************************************************************************)
(* The cache file.  kind is "missing" (no file), "unparsable" (json.load   *)
(* raises JSONDecodeError), "array" (parsable JSON that is not an object)  *)
(* or "object" (a JSON object, held in doc).  json.dump followed by        *)
(* json.load gives back the dict it was given: the program's documents     *)
(* hold only strings, integers, lists and dicts with string keys.          *)
(***************************************************************************)
FileMissing == [kind |-> "missing", doc |-> EmptyDict]

FileOf(d) == [kind |-> "object", doc |-> d]

\* load_cache: raised is TRUE when the call ends in an exception
load_cache(f) ==
    IF f.kind = "missing" THEN [raised |-> FALSE, ret |-> None]
    ELSE IF f.kind = "unparsable" THEN [raised |-> FALSE, ret |-> None]
    ELSE IF f.kind # "object" THEN [raised |-> TRUE, ret |-> None]
    ELSE IF DictGet(f.doc, "version") # Some(CACHE_VERSION)
           THEN [raised |-> FALSE, ret |-> None]
    ELSE [raised |-> FALSE, ret |-> Some(f.doc)]

\* save_cache that writes the header and drops the data
save_cache_header_only(data, now) ==
    FileOf([version |-> CACHE_VERSION, updated_at |-> IsoFormat(now)])

\* save_cache(data) at clock reading now: the file it leaves
\* a payload without the version field
save_cache_no_version(data, now) ==
    FileOf(Merge([updated_at |-> IsoFormat(now)], data))

save_cache(data, now) ==
    FileOf(Merge([version |-> CACHE_VERSION, updated_at |-> IsoFormat(now)], data))

\* get_lines_changed(cache): cache is an optional document
get_lines_changed(cache) ==
    IF cache = None \/ DOMAIN cache[1] = {} THEN None
    ELSE DictGet(cache[1], "lines_changed")

\* set_lines_changed(cache, additions, deletions, last_commit_date): the document
set_lines_changed(cache, additions, deletions, last_commit_date) ==
    DictSet(IF cache = None THEN EmptyDict ELSE cache[1],
            "lines_changed",
            [additions |-> additions,
             deletions |-> deletions,
             last_commit_date |-> last_commit_date])

\* get_recent_commits(cache)
get_recent_commits(cache) ==
    IF cache = None \/ DOMAIN cache[1] = {} THEN None
    ELSE DictGet(cache[1], "recent_commits")

\* set_recent_commits that keeps an entry already there (setdefault)
set_recent_commits_keep(cache, fingerprints, now) ==
    IF cache # None /\ "recent_commits" \in DOMAIN cache[1] THEN cache[1]
    ELSE DictSet(IF cache = None THEN EmptyDict ELSE cache[1],
                 "recent_commits",
                 [fingerprints |-> fingerprints, last_checked |-> IsoFormat(now)])

\* set_recent_commits that leaves the document as it is for an empty list
set_recent_commits_nonempty(cache, fingerprints, now) ==
    IF fingerprints = <<>> THEN (IF cache = None THEN EmptyDict ELSE cache[1])
    ELSE DictSet(cache[1], "recent_commits",
                 [fingerprints |-> fingerprints, last_checked |-> IsoFormat(now)])

\* set_recent_commits(cache, fingerprints) at clock reading now
set_recent_commits(cache, fingerprints, now) ==
    DictSet(IF cache = None THEN EmptyDict ELSE cache[1],
            "recent_commits",
            [fingerprints |-> fingerprints, last_checked |-> IsoFormat(now)])

(***************************************************************************)
(* The remote.  Repository names and SHAs are sequences of characters.     *)
(* CommitTable is what repos/{repo}/commits/{sha} answers for each commit: *)
(* detail "full" is a commit with stats, "nostats" a commit whose answer   *)
(* carries no stats, "nocommit" an answer without a "commit" field (the    *)
(* empty result of a failed request).  Authored dates are whole seconds,   *)
(* the format the remote prints.                                           *)
(***************************************************************************)
RepoOR == <<"o", "/", "r">>

RepoOQ == <<"o", "/", "q">>

Sha(c, n) == <<c, c, c, c, c, c, c, n>>

CommitTable ==
    << [repo |-> RepoOR, sha |-> Sha("a", "1"), detail |-> "full",
        date |-> IsoFormat(0 * TicksPerSec), additions |-> 2, deletions |-> 1],
       [repo |-> RepoOR, sha |-> Sha("b", "2"), detail |-> "full",
        date |-> IsoFormat(1 * TicksPerSec), additions |-> 1, deletions |-> 0],
       [repo |-> RepoOQ, sha |-> Sha("c", "3"), detail |-> "full",
        date |-> IsoFormat(1 * TicksPerSec), additions |-> 0, deletions |-> 0],
       [repo |-> RepoOQ, sha |-> Sha("d", "4"), detail |-> "nostats",
        date |-> IsoFormat(3 * TicksPerSec), additions |-> 0, deletions |-> 0],
       [repo |-> RepoOR, sha |-> Sha("e", "5"), detail |-> "nocommit",
        date |-> IsoFormat(0), additions |-> 0, deletions |-> 0],
       [repo |-> RepoOR, sha |-> Sha("f", "6"), detail |-> "full",
        date |-> IsoFormat(2 * TicksPerSec), additions |-> 3, deletions |-> 2] >>

Commit(i) == CommitTable[i]

\* a[:n] on a sequence
Prefix(a, n) == SubSeq(a, 1, IF Len(a) < n THEN Len(a) ELSE n)

\* GET repos/{repo}/commits/{sha}: sha may be abbreviated; <<>> when no commit matches
CommitDetail(repo, sha) ==
    LET hits == {i \in DOMAIN CommitTable :
                    /\ CommitTable[i].repo = repo
                    /\ Prefix(CommitTable[i].sha, Len(sha)) = sha}
    IN  IF hits = {} THEN None ELSE Some(CommitTable[CHOOSE i \in hits : TRUE])

\* the events users/{user}/events can list
PushEvent(repo, head, commits) ==
    [type |-> "PushEvent", repo |-> repo, head |-> head, commits |-> commits]

EventPool ==
    << PushEvent(RepoOR, Some(Commit(2).sha), <<Commit(1).sha, Commit(2).sha>>),
       PushEvent(RepoOQ, Some(Commit(3).sha), <<Commit(4).sha, Commit(3).sha>>),
       PushEvent(RepoOR, Some(Commit(6).sha), <<Commit(5).sha, Commit(6).sha>>),
       PushEvent(RepoOR, None, <<Commit(1).sha>>),
       [type |-> "WatchEvent", repo |-> RepoOR, head |-> None, commits |-> <<>>] >>

\* sequences of pool indices, up to n long
RECURSIVE IndexLists(_)
IndexLists(n) ==
    IF n = 0 THEN {<<>>}
    ELSE LET shorter == IndexLists(n - 1)
         IN  shorter \cup
             {Append(l, i) : l \in {s \in shorter : Len(s) = n - 1},
                             i \in DOMAIN EventPool}

\* the feed lists events by recency: an event keeps its place relative to the others
Ordered(l) == \A i, j \in DOMAIN l : i < j => l[i] < l[j]

\* the event lists the remote may return, most recent first
EventLists ==
    {[k \in DOMAIN l |-> EventPool[l[k]]] :
        l \in {x \in IndexLists(MaxEvents) : Ordered(x)}}

(***************************************************************************)
(* Contributor statistics.  A response to repos/{repo}/stats/contributors  *)
(* is a list of author objects, or not a list (the empty dict query_rest   *)
(* returns once its attempts are used up).                                 *)
(***************************************************************************)
Username == "me"

Week(a, d) == [a |-> a, d |-> d]

\* what stats/contributors answers for each repository of the remote
ContribTable ==
    << [isList |-> TRUE,
        authors |-> << [login |-> "me", weeks |-> <<Week(5, 2), Week(3, 1)>>] >>],
       [isList |-> TRUE,
        authors |-> << [login |-> "other", weeks |-> <<Week(7, 7)>>],
                       [login |-> "me", weeks |-> <<Week(1, 0)>>] >>],
       [isList |-> FALSE, authors |-> <<>>] >>

\* the sets of repositories (numbers of ContribTable) discovery may find
RepoSets == {rs \in SUBSET (DOMAIN ContribTable) : Cardinality(rs) <= MaxRepos}

(***************************************************************************)
(* Lines changed, cold path: the sums of github_stats.py lines 513-524.    *)
(***************************************************************************)
\* for week in weeks: total += week.get(field, 0)
RECURSIVE SumWeeks(_, _)
SumWeeks(weeks, field) ==
    IF weeks = <<>> THEN 0
    ELSE weeks[1][field] + SumWeeks(Tail(weeks), field)

\* SumAuthors without the author filter of lines 519-521
RECURSIVE SumAuthorsAnyLogin(_, _)
SumAuthorsAnyLogin(authors, field) ==
    IF authors = <<>> THEN 0
    ELSE SumWeeks(authors[1].weeks, field) + SumAuthorsAnyLogin(Tail(authors), field)

\* for author_obj in r: skip the other authors, add the weeks of the tracked user
RECURSIVE SumAuthors(_, _)
SumAuthors(authors, field) ==
    IF authors = <<>> THEN 0
    ELSE (IF authors[1].login # Username THEN 0
          ELSE SumWeeks(authors[1].weeks, field))
         + SumAuthors(Tail(authors), field)

\* one repository's share: nothing when the response is not a list
RepoLines(response, field) ==
    IF ~response.isList THEN 0 ELSE SumAuthors(response.authors, field)

\* for repo in repos: ... over the set of discovered repositories
RECURSIVE ScanLines(_, _)
ScanLines(repoSet, field) ==
    IF repoSet = {} THEN 0
    ELSE LET r == CHOOSE x \in repoSet : TRUE
         IN  RepoLines(ContribTable[r], field) + ScanLines(repoSet \ {r}, field)

(***************************************************************************)
(* Lines changed, warm path: lines_changed_since.                          *)
(***************************************************************************)
\* the (repo, sha) pairs the loops of lines 587-597 visit, in order
RECURSIVE Listings(_)
Listings(events) ==
    IF events = <<>> THEN <<>>
    ELSE (IF events[1].type # "PushEvent" THEN <<>>
          ELSE [k \in DOMAIN events[1].commits |->
                   [repo |-> events[1].repo, sha |-> events[1].commits[k]]])
         \o Listings(Tail(events))

\* the date filter with < for <=: a commit dated at the watermark is kept
NewerThanOrAt(commit_iso, since_iso) == ~(FromIso(commit_iso) < FromIso(since_iso))

\* the date filter comparing the strings, as line 615 does, not the instants
NewerThanAsString(commit_iso, since_iso) == StrGreater(commit_iso, since_iso)

\* the date filter of line 605: TRUE when the commit is kept
NewerThan(commit_iso, since_iso) == ~(FromIso(commit_iso) <= FromIso(since_iso))

\* one pass of the inner loop body on the accumulator acc
SinceStep(acc, listing, since_iso) ==
    LET data == CommitDetail(listing.repo, listing.sha)
    IN  IF data = None \/ data[1].detail = "nocommit" THEN acc
        ELSE IF ~NewerThan(data[1].date, since_iso) THEN acc
        ELSE IF data[1].detail = "nostats" THEN acc
        ELSE [additions |-> acc.additions + data[1].additions,
              deletions |-> acc.deletions + data[1].deletions,
              newest |-> IF StrGreater(data[1].date, acc.newest)
                           THEN data[1].date ELSE acc.newest]

RECURSIVE SinceLoop(_, _, _)
SinceLoop(acc, listings, since_iso) ==
    IF listings = <<>> THEN acc
    ELSE SinceLoop(SinceStep(acc, listings[1], since_iso), Tail(listings), since_iso)

\* lines_changed_since(since_iso) against the event list events
lines_changed_since(since_iso, events) ==
    SinceLoop([additions |-> 0, deletions |-> 0, newest |-> since_iso],
              Listings(events), since_iso)

\* the totals replaced by the delta instead of raised by it
AddDeltaAssign(total, delta) == delta

\* lines 543-544: the totals after the delta
AddDelta(total, delta) == total + delta

(***************************************************************************)
(* Recent commits.  A fingerprint is the string repo + "@" + head[:7].     *)
(***************************************************************************)
Fingerprint(repo, head) == repo \o <<"@">> \o Prefix(head, ShortShaLen)

Contains(list, x) == \E i \in DOMAIN list : list[i] = x

\* the loop of recent_commit_fingerprints, from event number i on
RECURSIVE FingerprintLoop(_, _, _, _)
FingerprintLoop(events, i, fingerprints, limit) ==
    IF i > Len(events) THEN fingerprints
    ELSE IF events[i].type # "PushEvent" \/ events[i].head = None
           THEN FingerprintLoop(events, i + 1, fingerprints, limit)
    ELSE LET fp == Fingerprint(events[i].repo, events[i].head[1])
             fps == IF Contains(fingerprints, fp) THEN fingerprints
                    ELSE Append(fingerprints, fp)
         IN  IF Len(fps) >= limit THEN fps
             ELSE FingerprintLoop(events, i + 1, fps, limit)

recent_commit_fingerprints(events, limit) == FingerprintLoop(events, 1, <<>>, limit)

\* position of the last "@" of fp (fp.rsplit("@", 1)); 0 when there is none
LastAt(fp) ==
    LET ats == {i \in DOMAIN fp : fp[i] = "@"}
    IN  IF ats = {} THEN 0 ELSE CHOOSE i \in ats : \A j \in ats : j <= i

\* the request fetch_commit_details issues for fp: repos/{owner}/{repo}/commits/{sha}
DetailRequest(fp) ==
    [repo |-> SubSeq(fp, 1, LastAt(fp) - 1),
     sha |-> SubSeq(fp, LastAt(fp) + 1, Len(fp))]

\* fetch_commit_details: the requests issued and the commits returned
RECURSIVE fetch_commit_details(_)
fetch_commit_details(fingerprints) ==
    IF fingerprints = <<>> THEN [requests |-> <<>>, commits |-> <<>>]
    ELSE LET req == DetailRequest(fingerprints[1])
             data == CommitDetail(req.repo, req.sha)
             rest == fetch_commit_details(Tail(fingerprints))
             found == IF data = None \/ data[1].detail = "nocommit" THEN <<>>
                      ELSE << [repo |-> req.repo, date |-> data[1].date,
                               sha |-> req.sha] >>
         IN  [requests |-> <<req>> \o rest.requests,
              commits |-> found \o rest.commits]

(***************************************************************************)
(* State.                                                                  *)
(***************************************************************************)
VARIABLES
    file,        \* the cache file
    clock,       \* the last reading of the clock, in ticks
    phase,       \* "idle" between runs, "running" during one
    run,         \* number of runs started
    events,      \* the event list the remote returns during this run
    repos,       \* Stats._repos: the discovered repositories, once computed (optional)
    pcRc,        \* recent_commits: "idle", "loaded" (after load_cache), "done"
    rcCache,     \* the document recent_commits loaded (optional)
    pcLc,        \* lines_changed: "idle", "ready", "cold", "warm", "done"
    lcCache,     \* the document lines_changed loaded (optional)
    lcCall,      \* lines_changed calls completed in this run
    lcLog,       \* what each lines_changed call of this run did, in order
    rcLog,       \* what the recent_commits call of this run did (optional)
    lcAtStart,   \* the persisted lines_changed entry when this run started
    cacheArg,    \* cache operations alone: the document handed to save_cache
    loadResult,  \* cache operations alone: what the last load_cache gave
    fp,          \* recent_commit_fingerprints alone: the call and what it returned
    disc,        \* repository discovery alone: configuration, remote, Stats fields,
                 \* get_stats passes and the tasks awaiting accessors
    net,         \* the Queries client alone: its semaphore and the calls in progress
    evAnswer,    \* what the events request of the run delivered: "list" or "error"
    acc,         \* a sub-accessor of the cache document alone: the call and its result
    boot         \* the process: which main runs, its environment, how far it has come

vars ==
    <<file, clock, phase, run, events, repos, pcRc, rcCache, pcLc, lcCache, lcCall,
      lcLog, rcLog, lcAtStart, cacheArg, loadResult, fp, disc, net, evAnswer, acc, boot>>

\* the variables of the runs and of the cache operations
coreVars ==
    <<file, clock, phase, run, events, repos, pcRc, rcCache, pcLc, lcCache, lcCall,
      lcLog, rcLog, lcAtStart, cacheArg, loadResult>>

\* the variables of the operations modelled on their own, further down
extVars == <<fp, disc, net, evAnswer, acc, boot>>

\* no call of recent_commit_fingerprints made
FpIdle == [called |-> FALSE, events |-> <<>>, limit |-> 0, result |-> <<>>]

\* Stats.__init__, lines 273-286, for a configuration and a remote
DiscInit(cfg, remote) ==
    [cfg |-> cfg,
     remote |-> remote,
     name |-> None,
     stargazers |-> None,
     forks |-> None,
     languages |-> None,
     repos |-> None,
     passes |-> <<>>,
     tasks |-> [t \in 1..NumTasks |-> [pc |-> "idle", accessor |-> "", pass |-> 0]]]

\* no exclusions, forks counted, a remote without repositories
DiscIdle ==
    DiscInit([exclude_repos |-> {}, exclude_langs |-> {}, ignore_forked |-> FALSE],
             [owned |-> <<>>, contrib |-> <<>>, nullCursor |-> FALSE])

\* range(60), line 87
AttemptLimit == 60

\* a coroutine that has not called the client
CallerIdle ==
    [kind |-> "none", pc |-> "idle", attempt |-> 0, requests |-> 0, last |-> "none",
     result |-> "none"]

\* Queries.__init__, lines 33-43: the semaphore starts with max_connections
\* free slots.  patience is how many answers of one call the remote lets
\* lead to another attempt; peak is the largest number of requests that
\* were in flight together.
NetInit(max_connections, patience) ==
    [max_connections |-> max_connections,
     free |-> max_connections,
     patience |-> patience,
     peak |-> 0,
     callers |-> [c \in 1..NumCallers |-> CallerIdle]]

NetIdle == NetInit(1, 0)

\* no sub-accessor has been called
AccIdle == [op |-> "none", cache |-> None, args |-> <<>>, result |-> None]

\* no process has been started
BootIdle == [main |-> "none", token |-> None, user |-> None, pc |-> "none", run0 |-> 0]

\* the stand-alone variables other than the one a section is about
IdleBut(v) ==
    /\ v = "fp" \/ fp = FpIdle
    /\ v = "disc" \/ disc = DiscIdle
    /\ v = "net" \/ net = NetIdle
    /\ v = "evAnswer" \/ evAnswer = "list"
    /\ v = "acc" \/ acc = AccIdle
    /\ v = "boot" \/ boot = BootIdle

ExtIdle == IdleBut("none")

\* the persisted lines_changed entry (optional)
PersistedLc(f) == IF f.kind = "object" THEN DictGet(f.doc, "lines_changed") ELSE None

\* the persisted recent_commits entry (optional)
PersistedRc(f) == IF f.kind = "object" THEN DictGet(f.doc, "recent_commits") ELSE None

\* a reading of the clock: time has stood still or moved on one tick.  The
\* readings of one synchronous block, instructions apart, are one instant.
Readings(t) == {n \in t..(t + 1) : n <= MaxClock}

CoreIdle ==
    /\ file = FileMissing
    /\ clock = 0
    /\ phase = "idle"
    /\ run = 0
    /\ events = <<>>
    /\ repos = None
    /\ pcRc = "idle"
    /\ rcCache = None
    /\ pcLc = "idle"
    /\ lcCache = None
    /\ lcCall = 0
    /\ lcLog = <<>>
    /\ rcLog = None
    /\ lcAtStart = None
    /\ cacheArg = None
    /\ loadResult = None

Init == CoreIdle /\ ExtIdle

(***************************************************************************)
(* A run of generate_images.main.  gather starts the generators together:  *)
(* generate_recent_commits reaches load_cache before its first await,      *)
(* generate_overview reaches lines_changed only after the network answers. *)
(***************************************************************************)
RunStart ==
    /\ UNCHANGED extVars
    /\ phase = "idle"
    /\ run < MaxRuns
    /\ phase' = "running"
    /\ run' = run + 1
    /\ \E ev \in EventLists : events' = ev
    /\ rcCache' = load_cache(file).ret
    /\ pcRc' = "loaded"
    /\ pcLc' = "ready"
    /\ lcAtStart' = PersistedLc(file)
    /\ UNCHANGED <<file, clock, repos, lcCache, lcCall, lcLog, rcLog,
                   cacheArg, loadResult>>

\* lines_changed, lines 506-509: load the cache and pick the path
LcLoad ==
    /\ UNCHANGED extVars
    /\ phase = "running"
    /\ pcLc = "ready"
    /\ lcCache' = load_cache(file).ret
    /\ pcLc' = IF get_lines_changed(load_cache(file).ret) = None THEN "cold" ELSE "warm"
    /\ UNCHANGED <<file, clock, phase, run, events, repos, pcRc, rcCache, lcCall,
                   lcLog, rcLog, lcAtStart, cacheArg, loadResult>>

AfterCall == IF lcCall + 1 >= LcCallsPerRun THEN "done" ELSE "ready"

\* lines_changed, lines 510-531: the full scan over self.repos
LcCold ==
    /\ UNCHANGED extVars
    /\ phase = "running"
    /\ pcLc = "cold"
    /\ \E rs \in (IF repos = None THEN RepoSets ELSE {repos[1]}),
          now \in Readings(clock) :
            LET additions == ScanLines(rs, "a")
                deletions == ScanLines(rs, "d")
                cache == set_lines_changed(lcCache, additions, deletions, IsoFormat(now))
            IN  /\ file' = save_cache(cache, now)
                /\ clock' = now
                /\ repos' = Some(rs)
                /\ lcLog' = Append(lcLog, [path |-> "cold",
                                           cached |-> None,
                                           ret |-> <<additions, deletions>>,
                                           wrote |-> TRUE,
                                           after |-> PersistedLc(file')])
    /\ lcCall' = lcCall + 1
    /\ pcLc' = AfterCall
    /\ UNCHANGED <<phase, run, events, pcRc, rcCache, lcCache, rcLog, lcAtStart,
                   cacheArg, loadResult>>

\* lines_changed, lines 533-550: the delta since the watermark
LcWarm ==
    /\ UNCHANGED extVars
    /\ phase = "running"
    /\ pcLc = "warm"
    /\ LET lc == get_lines_changed(lcCache)[1]
           delta == lines_changed_since(lc.last_commit_date, events)
           additions == AddDelta(lc.additions, delta.additions)
           deletions == AddDelta(lc.deletions, delta.deletions)
       IN  IF delta.additions = 0 /\ delta.deletions = 0
             THEN /\ lcLog' = Append(lcLog, [path |-> "warm",
                                             cached |-> Some(lc),
                                             ret |-> <<lc.additions, lc.deletions>>,
                                             wrote |-> FALSE,
                                             after |-> PersistedLc(file)])
                  /\ UNCHANGED <<file, clock>>
             ELSE \E now \in Readings(clock) :
                    /\ file' = save_cache(set_lines_changed(lcCache, additions,
                                                            deletions, delta.newest),
                                          now)
                    /\ clock' = now
                    /\ lcLog' = Append(lcLog, [path |-> "warm",
                                               cached |-> Some(lc),
                                               ret |-> <<additions, deletions>>,
                                               wrote |-> TRUE,
                                               after |-> PersistedLc(file')])
    /\ lcCall' = lcCall + 1
    /\ pcLc' = AfterCall
    /\ UNCHANGED <<phase, run, events, repos, pcRc, rcCache, lcCache, rcLog,
                   lcAtStart, cacheArg, loadResult>>

\* recent_commits, lines 714-734, after the load_cache of line 713
RcFinish ==
    /\ UNCHANGED extVars
    /\ phase = "running"
    /\ pcRc = "loaded"
    /\ LET cached == get_recent_commits(rcCache)
           old_fps == IF cached = None THEN <<>> ELSE cached[1].fingerprints
           new_fps == recent_commit_fingerprints(events, DefaultLimit)
       IN  IF old_fps = <<>> /\ new_fps = <<>>
             THEN \E now \in Readings(clock) :
                    /\ file' = save_cache(set_recent_commits(rcCache, <<>>, now), now)
                    /\ clock' = now
                    /\ rcLog' = Some([old_fps |-> old_fps, new_fps |-> new_fps,
                                      requests |-> <<>>, commits |-> <<>>,
                                      wrote |-> TRUE,
                                      after |-> PersistedRc(file')])
           ELSE IF old_fps # <<>> /\ new_fps = old_fps
             THEN /\ rcLog' = Some([old_fps |-> old_fps, new_fps |-> new_fps,
                                    requests |-> fetch_commit_details(old_fps).requests,
                                    commits |-> fetch_commit_details(old_fps).commits,
                                    wrote |-> FALSE,
                                    after |-> PersistedRc(file)])
                  /\ UNCHANGED <<file, clock>>
           ELSE \E now \in Readings(clock) :
                    /\ file' = save_cache(set_recent_commits(rcCache, new_fps, now), now)
                    /\ clock' = now
                    /\ rcLog' = Some([old_fps |-> old_fps, new_fps |-> new_fps,
                                      requests |-> fetch_commit_details(new_fps).requests,
                                      commits |-> fetch_commit_details(new_fps).commits,
                                      wrote |-> TRUE,
                                      after |-> PersistedRc(file')])
    /\ pcRc' = "done"
    /\ UNCHANGED <<phase, run, events, repos, rcCache, pcLc, lcCache, lcCall, lcLog,
                   lcAtStart, cacheArg, loadResult>>

\* gather returns once every generator has; the process ends and the Stats
\* object, with all that the run held in memory, is gone
RunEnd ==
    /\ UNCHANGED extVars
    /\ phase = "running"
    /\ pcRc = "done"
    /\ pcLc = "done"
    /\ phase' = "idle"
    /\ events' = <<>>
    /\ repos' = None
    /\ pcRc' = "idle"
    /\ rcCache' = None
    /\ pcLc' = "idle"
    /\ lcCache' = None
    /\ lcCall' = 0
    /\ lcLog' = <<>>
    /\ rcLog' = None
    /\ lcAtStart' = None
    /\ UNCHANGED <<file, clock, run, cacheArg, loadResult>>

Next == RunStart \/ LcLoad \/ LcCold \/ LcWarm \/ RcFinish \/ RunEnd

Spec == Init /\ [][Next]_vars

(***************************************************************************)
(* Runs of lines_changed alone: generate_overview's two calls, run after   *)
(* run, with no recent_commits beside them.                                *)
(***************************************************************************)
LcRunStart ==
    /\ UNCHANGED extVars
    /\ phase = "idle"
    /\ run < MaxRuns
    /\ phase' = "running"
    /\ run' = run + 1
    /\ \E ev \in EventLists : events' = ev
    /\ pcRc' = "done"
    /\ pcLc' = "ready"
    /\ lcAtStart' = PersistedLc(file)
    /\ UNCHANGED <<file, clock, repos, rcCache, lcCache, lcCall, lcLog, rcLog,
                   cacheArg, loadResult>>

NextLc == LcRunStart \/ LcLoad \/ LcCold \/ LcWarm \/ RunEnd

SpecLc == Init /\ [][NextLc]_vars

(***************************************************************************)
(* The cache operations alone: load_cache and save_cache on any file the   *)
(* disk may hold and any document a caller may pass.                       *)
(***************************************************************************)
DocKeys == {"version", "updated_at", "lines_changed", "recent_commits"}

\* the values a document may give a key
DocValues(k) ==
    IF k = "version" THEN {CACHE_VERSION, CACHE_VERSION + 1}
    ELSE IF k = "updated_at" THEN {IsoFormat(0)}
    ELSE IF k = "lines_changed"
           THEN {[additions |-> 2, deletions |-> 1, last_commit_date |-> IsoFormat(0)]}
    ELSE {[fingerprints |-> <<>>, last_checked |-> IsoFormat(0)]}

\* the documents of S, and each of them with key k set to each of its values
WithKey(S, k) == S \cup {DictSet(d, k, v) : d \in S, v \in DocValues(k)}

Docs ==
    WithKey(WithKey(WithKey(WithKey({EmptyDict}, "version"), "updated_at"),
                    "lines_changed"), "recent_commits")

FileStates ==
    {FileMissing,
     [kind |-> "unparsable", doc |-> EmptyDict],
     [kind |-> "array", doc |-> EmptyDict]}
        \cup {FileOf(d) : d \in Docs}

RunIdle ==
    /\ phase = "idle"
    /\ run = 0
    /\ events = <<>>
    /\ repos = None
    /\ pcRc = "idle"
    /\ rcCache = None
    /\ pcLc = "idle"
    /\ lcCache = None
    /\ lcCall = 0
    /\ lcLog = <<>>
    /\ rcLog = None
    /\ lcAtStart = None

runVars ==
    <<phase, run, events, repos, pcRc, rcCache, pcLc, lcCache, lcCall,
      lcLog, rcLog, lcAtStart>>

InitCache ==
    /\ file \in FileStates
    /\ clock = 0
    /\ cacheArg = None
    /\ loadResult = None
    /\ RunIdle
    /\ ExtIdle

\* save_cache(x) for a document x
CacheSave ==
    /\ UNCHANGED extVars
    /\ \E x \in Docs, now \in Readings(clock) :
         /\ file' = save_cache(x, now)
         /\ clock' = now
         /\ cacheArg' = Some(x)
    /\ loadResult' = None
    /\ UNCHANGED runVars

\* load_cache()
CacheLoad ==
    /\ UNCHANGED extVars
    /\ loadResult = None
    /\ loadResult' = Some(load_cache(file))
    /\ UNCHANGED <<file, clock, cacheArg>>
    /\ UNCHANGED runVars

\* the file is removed, damaged or replaced from outside the program
CacheDamage ==
    /\ UNCHANGED extVars
    /\ \E f \in FileStates : file' = f
    /\ cacheArg' = None
    /\ loadResult' = None
    /\ UNCHANGED clock
    /\ UNCHANGED runVars

NextCache == CacheSave \/ CacheLoad \/ CacheDamage

SpecCache == InitCache /\ [][NextCache]_vars

(***************************************************************************)
(* What the claims speak of, stated apart from the loops of the code.      *)
(***************************************************************************)
\* the (repository, author object, week) triples attributed to the tracked user
Attributed(repoSet) ==
    {t \in UNION {UNION {{<<r, i, k>> : k \in DOMAIN ContribTable[r].authors[i].weeks} :
                           i \in DOMAIN ContribTable[r].authors} : r \in repoSet} :
        /\ ContribTable[t[1]].isList
        /\ ContribTable[t[1]].authors[t[2]].login = Username}

RECURSIVE SumTriples(_, _)
SumTriples(S, field) ==
    IF S = {} THEN 0
    ELSE LET t == CHOOSE x \in S : TRUE
         IN  ContribTable[t[1]].authors[t[2]].weeks[t[3]][field]
                + SumTriples(S \ {t}, field)

\* the answers of the remote for the listings of the event list, in order
RECURSIVE DetailsOf(_)
DetailsOf(listings) ==
    IF listings = <<>> THEN <<>>
    ELSE <<CommitDetail(listings[1].repo, listings[1].sha)>> \o DetailsOf(Tail(listings))

\* the listings, by number in the answers D, whose commit is authored later
\* than the watermark w
Later(D, w) ==
    {i \in DOMAIN D :
        /\ D[i] # None
        /\ D[i][1].detail # "nocommit"
        /\ FromIso(D[i][1].date) > FromIso(w)}

\* those of them whose answer carries stats
Counted(D, w) == {i \in Later(D, w) : D[i][1].detail = "full"}

RECURSIVE SumListed(_, _, _)
SumListed(D, S, field) ==
    IF S = {} THEN 0
    ELSE LET i == CHOOSE x \in S : TRUE
         IN  (IF D[i][1].detail = "full" THEN D[i][1][field] ELSE 0)
                + SumListed(D, S \ {i}, field)

\* the latest authored timestamp among the listings S (S not empty)
LatestDate(D, S) ==
    D[CHOOSE i \in S : \A j \in S : FromIso(D[j][1].date) <= FromIso(D[i][1].date)][1].date

ColdCalls == {i \in DOMAIN lcLog : lcLog[i].path = "cold"}

WarmCalls == {i \in DOMAIN lcLog : lcLog[i].path = "warm"}

(***************************************************************************)
(* C1.  A cold lines_changed call returns the sums of the a and d values   *)
(* of every week of every author object of the tracked user, over every    *)
(* discovered repository, and on return the persisted lines_changed entry  *)
(* holds exactly the returned additions and deletions.                     *)
(***************************************************************************)
C1_ColdPathTotals ==
    \A i \in ColdCalls :
        /\ repos # None
        /\ lcLog[i].ret = <<SumTriples(Attributed(repos[1]), "a"),
                            SumTriples(Attributed(repos[1]), "d")>>
        /\ lcLog[i].after # None
        /\ lcLog[i].after[1].additions = lcLog[i].ret[1]
        /\ lcLog[i].after[1].deletions = lcLog[i].ret[2]

\* a cold call over two repositories, one of them with another author's weeks
C1_Witness ==
    \E i \in ColdCalls :
        /\ lcLog[i].ret = <<9, 3>>
        /\ lcLog[i].after[1].additions = 9

(***************************************************************************)
(* C2.  Two warm lines_changed calls in a row against the same event list  *)
(* (the two calls of one run): the second returns the totals the first     *)
(* returned and leaves the persisted additions, deletions and              *)
(* last_commit_date as the first left them.                                *)
(***************************************************************************)
C2_WarmIdempotent ==
    (Len(lcLog) = 2 /\ lcLog[1].path = "warm" /\ lcLog[2].path = "warm")
        => /\ lcLog[2].ret = lcLog[1].ret
           /\ lcLog[2].after = lcLog[1].after

\* the first call found new lines and moved the watermark, the second found none
C2_Witness ==
    /\ Len(lcLog) = 2
    /\ lcLog[1].path = "warm"
    /\ lcLog[2].path = "warm"
    /\ lcLog[1].wrote
    /\ ~lcLog[2].wrote
    /\ lcLog[2].cached = lcLog[1].after

(***************************************************************************)
(* C3.  When recent_commits finds the freshly computed fingerprint list    *)
(* equal to a non-empty cached list, it issues no commit-detail request.   *)
(***************************************************************************)
C3_NoRefetchWhenUnchanged ==
    (rcLog # None /\ rcLog[1].old_fps # <<>> /\ rcLog[1].new_fps = rcLog[1].old_fps)
        => rcLog[1].requests = <<>>

Loadable(f) ==
    /\ f.kind = "object"
    /\ "version" \in DOMAIN f.doc
    /\ f.doc["version"] = CACHE_VERSION

C5_LoadNeverRaises ==
    loadResult # None
        => /\ ~loadResult[1].raised
           /\ ~Loadable(file) => loadResult[1].ret = None

(***************************************************************************)
(* C6.  save_cache(x) followed at once by load_cache gives a document      *)
(* with every field of x at the value x gave it, and with a version and    *)
(* an updated_at field.  As claimed: for every document x.                 *)
(***************************************************************************)
RoundTrip(x, r) ==
    /\ ~r.raised
    /\ r.ret # None
    /\ \A k \in DOMAIN x : k \in DOMAIN r.ret[1] /\ r.ret[1][k] = x[k]
    /\ "version" \in DOMAIN r.ret[1]
    /\ "updated_at" \in DOMAIN r.ret[1]

C6_RoundTripAnyDocument ==
    (cacheArg # None /\ loadResult # None) => RoundTrip(cacheArg[1], loadResult[1])

\* C6 as amended: for every document x that has no version field or whose
\* version field is the expected constant
C6_RoundTrip ==
    (/\ cacheArg # None
     /\ loadResult # None
     /\ ("version" \in DOMAIN cacheArg[1] => cacheArg[1]["version"] = CACHE_VERSION))
        => RoundTrip(cacheArg[1], loadResult[1])

\* a document without a version, with a lines_changed entry, saved and loaded back
C6_Witness ==
    /\ cacheArg # None
    /\ "version" \notin DOMAIN cacheArg[1]
    /\ "lines_changed" \in DOMAIN cacheArg[1]
    /\ loadResult # None
    /\ loadResult[1].ret # None

(***************************************************************************)
(* C7.  Starting from an absent cache, with each run executing             *)
(* lines_changed and recent_commits as main does, the full scan of the     *)
(* cold path is performed in the first run only.                           *)
(***************************************************************************)
C7_FullScanOnce == \A i \in ColdCalls : run = 1

(***************************************************************************)
(* C8.  Across warm-path runs the persisted additions and deletions never  *)
(* decrease from one run to the next: in a run that began with a           *)
(* lines_changed entry, the persisted entry is at every point at least     *)
(* what the run before left.                                               *)
(***************************************************************************)
C8_TotalsNeverDecrease ==
    (phase = "running" /\ lcAtStart # None)
        => /\ PersistedLc(file) # None
           /\ PersistedLc(file)[1].additions >= lcAtStart[1].additions
           /\ PersistedLc(file)[1].deletions >= lcAtStart[1].deletions

\* a warm run that ends with more lines than the run before left
C8_Witness ==
    /\ phase = "running"
    /\ pcLc = "done"
    /\ pcRc = "done"
    /\ lcAtStart # None
    /\ PersistedLc(file)[1].additions > lcAtStart[1].additions

(***************************************************************************)
(* C9.  Every last_commit_date that a lines_changed call writes denotes    *)
(* an instant not earlier than the last_commit_date it replaces.           *)
(***************************************************************************)
LcWrites == pcLc \in {"cold", "warm"} /\ pcLc' \notin {"cold", "warm"} /\ file' # file

C9_WatermarkForward ==
    [][(LcWrites /\ PersistedLc(file) # None)
          => FromIso(PersistedLc(file')[1].last_commit_date)
                >= FromIso(PersistedLc(file)[1].last_commit_date)]_vars

\* a warm call that moved the watermark to a later instant
C9_Witness ==
    \E i \in WarmCalls :
        /\ lcLog[i].wrote
        /\ FromIso(lcLog[i].after[1].last_commit_date)
              > FromIso(lcLog[i].cached[1].last_commit_date)

(***************************************************************************)
(* C10.  A warm lines_changed call with cached watermark w returns and     *)
(* persists the cached totals plus the additions and deletions of the      *)
(* listed commits authored later than w and sets the watermark to the      *)
(* latest authored timestamp among them; with no such commit it returns    *)
(* the cached totals and does not write.  As claimed: over every listed    *)
(* commit later than w.                                                    *)
(***************************************************************************)
WarmDelta(D, i, S, found) ==
    LET lc == lcLog[i].cached[1]
    IN  IF ~found
          THEN /\ lcLog[i].ret = <<lc.additions, lc.deletions>>
               /\ ~lcLog[i].wrote
          ELSE /\ lcLog[i].ret = <<lc.additions + SumListed(D, S, "additions"),
                                   lc.deletions + SumListed(D, S, "deletions")>>
               /\ lcLog[i].wrote
               /\ lcLog[i].after
                    = Some([additions |-> lcLog[i].ret[1],
                            deletions |-> lcLog[i].ret[2],
                            last_commit_date |-> LatestDate(D, S)])

MaxFpEvents == 3
\* largest limit
MaxLimit == 3

\* two pushes with one head, a push to another repository, a push without a
\* head, an event that is no push
FpPool ==
    << PushEvent(RepoOR, Some(Commit(2).sha), <<Commit(1).sha, Commit(2).sha>>),
       PushEvent(RepoOR, Some(Commit(2).sha), <<Commit(2).sha>>),
       PushEvent(RepoOQ, Some(Commit(3).sha), <<Commit(4).sha, Commit(3).sha>>),
       PushEvent(RepoOR, Some(Commit(6).sha), <<Commit(5).sha, Commit(6).sha>>),
       PushEvent(RepoOR, None, <<Commit(1).sha>>),
       [type |-> "WatchEvent", repo |-> RepoOR, head |-> None, commits |-> <<>>] >>

\* the event lists over FpPool, up to n long
RECURSIVE FpLists(_)
FpLists(n) ==
    IF n = 0 THEN {<<>>}
    ELSE LET shorter == FpLists(n - 1)
         IN  shorter \cup
             {Append(l, FpPool[i]) : l \in {x \in shorter : Len(x) = n - 1},
                                     i \in DOMAIN FpPool}

\* recent_commit_fingerprints(limit) against the event list evs
FpCall ==
    /\ \E evs \in FpLists(MaxFpEvents), limit \in 0..MaxLimit :
         fp' = [called |-> TRUE, events |-> evs, limit |-> limit,
                result |-> recent_commit_fingerprints(evs, limit)]
    /\ UNCHANGED coreVars
    /\ UNCHANGED <<disc, net, evAnswer, acc, boot>>

NextFp == FpCall

SpecFp == Init /\ [][NextFp]_vars

\* the push events of evs that have a head, by position
HeadEvents(evs) ==
    {i \in DOMAIN evs : evs[i].type = "PushEvent" /\ evs[i].head # None}

\* '<owner>/<repo>@<first 7 characters of the head SHA>' of event i
HeadFingerprint(evs, i) == evs[i].repo \o <<"@">> \o SubSeq(evs[i].head[1], 1, 7)

\* the positions where a fingerprint occurs for the first time
FirstOccurrences(evs) ==
    {i \in HeadEvents(evs) :
        \A j \in HeadEvents(evs) :
            j < i => HeadFingerprint(evs, j) # HeadFingerprint(evs, i)}

\* the k-th of them
KthFirst(evs, k) ==
    CHOOSE i \in FirstOccurrences(evs) :
        Cardinality({j \in FirstOccurrences(evs) : j <= i}) = k

(***************************************************************************)
(* C11.  recent_commit_fingerprints(limit) returns, for any event list and *)
(* any limit >= 0, the first limit head fingerprints of the push events    *)
(* that have a head, each once, in the order of first occurrence: at most  *)
(* limit of them, and all of them when there are fewer.                    *)
(***************************************************************************)
C11_FingerprintsUpToLimit ==
    fp.called =>
        LET n == Cardinality(FirstOccurrences(fp.events))
        IN  /\ Len(fp.result) = (IF n < fp.limit THEN n ELSE fp.limit)
            /\ \A k \in DOMAIN fp.result :
                  fp.result[k] = HeadFingerprint(fp.events, KthFirst(fp.events, k))

\* ---------------------------------------------------------------------------
\* Repository discovery: Stats.get_stats and the accessors that start it
\* ---------------------------------------------------------------------------

\* a language edge of a repository node: the size is missing from some
LangEdge(name, size) == [name |-> name, size |-> size]

\* Repository nodes as the overview query answers them.  A node may lack the
\* stargazers object, the star count inside it, the fork count, the language
\* list, or a language size.
NodeTable ==
    << [name |-> "o/a", hasStargazers |-> TRUE, totalCount |-> Some(3), forkCount |-> Some(1),
        languages |-> Some(<<LangEdge("Python", Some(4)), LangEdge("C", Some(2))>>)],
       [name |-> "o/b", hasStargazers |-> TRUE, totalCount |-> Some(2), forkCount |-> Some(2),
        languages |-> Some(<<LangEdge("Python", Some(1))>>)],
       [name |-> "o/x", hasStargazers |-> TRUE, totalCount |-> Some(5), forkCount |-> Some(0),
        languages |-> Some(<<LangEdge("Go", Some(3))>>)],
       [name |-> "o/d", hasStargazers |-> TRUE, totalCount |-> None, forkCount |-> None,
        languages |-> None],
       [name |-> "o/e", hasStargazers |-> FALSE, totalCount |-> None, forkCount |-> Some(1),
        languages |-> Some(<<LangEdge("C", Some(1))>>)],
       [name |-> "o/f", hasStargazers |-> TRUE, totalCount |-> Some(1), forkCount |-> Some(1),
        languages |-> Some(<<LangEdge("Rust", None)>>)] >>

\* pages of an edge, as lists of indices into NodeTable
PagePool ==
    << <<1, 2>>, <<2, 3>>, <<4>>, <<5, 1>>, <<6>>, <<>> >>

\* str.lower on the language names that occur, in the remote or in
\* EXCLUDED_LANGS
Lower(name) ==
    CASE name \in {"Python", "PYTHON"} -> "python"
      [] name = "C" -> "c"
      [] name = "Go" -> "go"
      [] name = "Rust" -> "rust"
      [] OTHER -> name

\* EXCLUDED, EXCLUDED_LANGS and EXCLUDE_FORKED_REPOS as main() reads them
ConfigPool ==
    { [exclude_repos |-> {}, exclude_langs |-> {}, ignore_forked |-> FALSE],
      [exclude_repos |-> {"o/x"}, exclude_langs |-> {"PYTHON"}, ignore_forked |-> FALSE],
      [exclude_repos |-> {}, exclude_langs |-> {"go"}, ignore_forked |-> TRUE] }

\* every list of 1..n different pages of one edge, in the order of the pool
RECURSIVE PageLists(_)
PageLists(n) ==
    IF n = 0 THEN {}
    ELSE PageLists(n - 1) \cup {l \in [1..n -> DOMAIN PagePool] : Ordered(l)}

\* remotes: the pages of the two edges, and whether a page after the last
\* one carries a null endCursor or none
RemotePool ==
    [owned : PageLists(MaxPages), contrib : PageLists(MaxPages), nullCursor : BOOLEAN]

\* One edge of the answer to Queries.repos_overview for the cursor sent
\* (None is the first page, Some(k) the page after page k).
EdgePage(pages, cursor, nullCursor) ==
    LET k == IF cursor = None THEN 1 ELSE cursor[1] + 1
    IN  IF k <= Len(pages)
        THEN [nodes |-> PagePool[pages[k]],
              hasNextPage |-> k < Len(pages),
              hasCursor |-> TRUE,
              endCursor |-> Some(k)]
        ELSE [nodes |-> <<>>,
              hasNextPage |-> FALSE,
              hasCursor |-> nullCursor,
              endCursor |-> None]

\* the answer to the overview query for the two cursors sent
Overview(remote, owned_cursor, contrib_cursor) ==
    [owned |-> EdgePage(remote.owned, owned_cursor, remote.nullCursor),
     contrib |-> EdgePage(remote.contrib, contrib_cursor, remote.nullCursor)]

\* lines 366-377: the language edges of one repository added to the totals
RECURSIVE AddLanguages(_, _, _)
AddLanguages(languages, edges, cfg) ==
    IF edges = <<>> THEN languages
    ELSE LET lang == Head(edges)
             size == IF lang.size = None THEN 0 ELSE lang.size[1]
             excluded == Lower(lang.name) \in {Lower(x) : x \in cfg.exclude_langs}
             added ==
                 IF lang.name \in DOMAIN languages
                 THEN [languages EXCEPT ![lang.name] =
                          [size |-> @.size + size, occurrences |-> @.occurrences + 1,
                           prop |-> @.prop]]
                 ELSE [n \in DOMAIN languages \cup {lang.name} |->
                          IF n = lang.name
                          THEN [size |-> size, occurrences |-> 1, prop |-> None]
                          ELSE languages[n]]
         IN  AddLanguages(IF excluded THEN languages ELSE added, Tail(edges), cfg)

\* a node is passed over only when its identifier is excluded
SkipsExcludedOnly(st, repo, cfg) == repo.name \in cfg.exclude_repos

\* lines 357-359: a node seen before or excluded is passed over
Skips(st, repo, cfg) == repo.name \in st.repos \/ repo.name \in cfg.exclude_repos

\* lines 354-377: one node of a page.  st holds the four totals and whether
\* an exception has ended the pass.
AddRepo(st, repo, cfg) ==
    IF st.raised \/ Skips(st, repo, cfg) THEN st
    ELSE IF ~repo.hasStargazers
         THEN [st EXCEPT !.repos = @ \cup {repo.name}, !.raised = TRUE]
         ELSE [repos |-> st.repos \cup {repo.name},
               stargazers |-> st.stargazers
                              + (IF repo.totalCount = None THEN 0 ELSE repo.totalCount[1]),
               forks |-> st.forks + (IF repo.forkCount = None THEN 0 ELSE repo.forkCount[1]),
               languages |-> AddLanguages(st.languages,
                                          IF repo.languages = None THEN <<>>
                                          ELSE repo.languages[1], cfg),
               raised |-> FALSE]

\* lines 354-377: the nodes of a page in order
RECURSIVE AddRepos(_, _, _)
AddRepos(st, nodes, cfg) ==
    IF nodes = <<>> THEN st
    ELSE AddRepos(AddRepo(st, NodeTable[Head(nodes)], cfg), Tail(nodes), cfg)

\* lines 349-352: the nodes of the answer that are looked at
PageNodes(answer, cfg) ==
    IF cfg.ignore_forked THEN answer.owned.nodes
    ELSE answer.owned.nodes \o answer.contrib.nodes

\* the loop goes on only while both edges report a further page
MorePagesBoth(answer) == answer.owned.hasNextPage /\ answer.contrib.hasNextPage

\* lines 379-389: whether another page is asked for
MorePages(answer) == answer.owned.hasNextPage \/ answer.contrib.hasNextPage

\* lines 381-386: pageInfo.get("endCursor", cursor)
NextCursor(edge, cursor) == IF edge.hasCursor THEN edge.endCursor ELSE cursor

\* sum of the sizes of the languages in S
RECURSIVE SizeSum(_, _)
SizeSum(languages, S) ==
    IF S = {} THEN 0
    ELSE LET n == CHOOSE x \in S : TRUE
         IN  languages[n].size + SizeSum(languages, S \ {n})

\* lines 391-395: the share of each language, as numerator and denominator
WithProportions(languages, total) ==
    [n \in DOMAIN languages |->
        [languages[n] EXCEPT !.prop = Some(<<100 * languages[n].size, total>>)]]

\* A task awaits an accessor (lines 398-467): the accessor returns the field
\* when it is set and starts get_stats otherwise; get_stats resets the four
\* totals (lines 316-319) and sends its first query.
AccessorField(d, accessor) ==
    CASE accessor = "name" -> d.name
      [] accessor = "stargazers" -> d.stargazers
      [] accessor = "forks" -> d.forks
      [] accessor = "languages" -> d.languages
      [] accessor = "languages_proportional" -> d.languages
      [] accessor = "repos" -> d.repos

Accessors == {"name", "stargazers", "forks", "languages", "languages_proportional", "repos"}

NewPass == [pc |-> "query", next_owned |-> None, next_contrib |-> None, got |-> <<>>]

AccessorCall(t, accessor) ==
    /\ disc.tasks[t].pc = "idle"
    /\ IF AccessorField(disc, accessor) # None
       THEN disc' = [disc EXCEPT !.tasks[t] = [pc |-> "returned", accessor |-> accessor,
                                                 pass |-> 0]]
       ELSE disc' = [disc EXCEPT !.stargazers = Some(0),
                                 !.forks = Some(0),
                                 !.languages = Some(<<>>),
                                 !.repos = Some({}),
                                 !.passes = Append(@, NewPass),
                                 !.tasks[t] = [pc |-> "waiting", accessor |-> accessor,
                                               pass |-> Len(disc.passes) + 1]]
    /\ UNCHANGED coreVars
    /\ UNCHANGED <<fp, net, evAnswer, acc, boot>>

\* The answer to the query of pass p arrives (lines 323-395): the name is
\* set, the nodes are added, and the pass asks for the next page, ends with
\* the proportions computed, or is ended by an exception.
GetStatsPage(p) ==
    /\ p \in DOMAIN disc.passes
    /\ disc.passes[p].pc = "query"
    /\ LET pass == disc.passes[p]
           answer == Overview(disc.remote, pass.next_owned, pass.next_contrib)
           st == AddRepos([repos |-> disc.repos[1], stargazers |-> disc.stargazers[1],
                           forks |-> disc.forks[1], languages |-> disc.languages[1],
                           raised |-> FALSE],
                          PageNodes(answer, disc.cfg), disc.cfg)
           more == MorePages(answer)
           total == SizeSum(st.languages, DOMAIN st.languages)
           divides == ~st.raised /\ ~more /\ DOMAIN st.languages # {} /\ total = 0
           pc == IF st.raised \/ divides THEN "raised"
                 ELSE IF more THEN "query" ELSE "done"
       IN  disc' = [disc EXCEPT
                !.name = Some("Me"),
                !.repos = Some(st.repos),
                !.stargazers = Some(st.stargazers),
                !.forks = Some(st.forks),
                !.languages = Some(IF pc = "done" /\ DOMAIN st.languages # {}
                                   THEN WithProportions(st.languages, total)
                                   ELSE st.languages),
                !.passes[p] = [pc |-> pc,
                               next_owned |-> IF st.raised \/ ~more THEN pass.next_owned
                                              ELSE NextCursor(answer.owned, pass.next_owned),
                               next_contrib |-> IF st.raised \/ ~more THEN pass.next_contrib
                                                ELSE NextCursor(answer.contrib,
                                                                pass.next_contrib),
                               got |-> Append(pass.got, answer)]]
    /\ UNCHANGED coreVars
    /\ UNCHANGED <<fp, net, evAnswer, acc, boot>>

\* get_stats has ended and the accessor that awaited it resumes: it returns
\* the field (lines 405-407 and alike) or passes the exception on
AccessorResume(t) ==
    /\ disc.tasks[t].pc = "waiting"
    /\ disc.passes[disc.tasks[t].pass].pc \in {"done", "raised"}
    /\ disc' = [disc EXCEPT !.tasks[t].pc =
                    IF disc.passes[disc.tasks[t].pass].pc = "done" THEN "returned"
                    ELSE "raised"]
    /\ UNCHANGED coreVars
    /\ UNCHANGED <<fp, net, evAnswer, acc, boot>>

\* the task goes on to its next await
TaskNext(t) ==
    /\ disc.tasks[t].pc = "returned"
    /\ disc' = [disc EXCEPT !.tasks[t] = [pc |-> "idle", accessor |-> "", pass |-> 0]]
    /\ UNCHANGED coreVars
    /\ UNCHANGED <<fp, net, evAnswer, acc, boot>>

\* one task awaits the accessors one after another, for every configuration
\* and every remote
InitDisc ==
    /\ CoreIdle
    /\ IdleBut("disc")
    /\ \E cfg \in ConfigPool, remote \in RemotePool : disc = DiscInit(cfg, remote)

NextDisc ==
    \/ \E accessor \in Accessors : AccessorCall(1, accessor)
    \/ \E p \in DOMAIN disc.passes : GetStatsPage(p)
    \/ AccessorResume(1)
    \/ TaskNext(1)

SpecDisc == InitDisc /\ [][NextDisc]_vars

\* the identifiers of the nodes in the pages of an edge
EdgeNames(pages) ==
    UNION { {NodeTable[PagePool[pages[k]][i]].name : i \in DOMAIN PagePool[pages[k]]} :
              k \in DOMAIN pages }

\* an answer reports a further page in at least one edge
FurtherPage(answer) == answer.owned.hasNextPage \/ answer.contrib.hasNextPage

\* the number of pages of the longer edge
LongerEdge(remote) ==
    IF Len(remote.owned) > Len(remote.contrib) THEN Len(remote.owned)
    ELSE Len(remote.contrib)

\* C12 as stated: a pass that returns has sent exactly as many queries as
\* the answer that first reports no further page in either edge, and the
\* repository set is then the union of the nodes of both edges in all pages.
C12_UnionOfAllPages ==
    \A p \in DOMAIN disc.passes :
        disc.passes[p].pc = "done" =>
            LET got == disc.passes[p].got
            IN  /\ \A k \in DOMAIN got : FurtherPage(got[k]) <=> k < Len(got)
                /\ disc.repos[1] = EdgeNames(disc.remote.owned)
                                   \cup EdgeNames(disc.remote.contrib)

\* C12 amended: a pass asks for a page only after an answer that reports a
\* further page in at least one edge; a pass that returns has received an
\* answer that reports none, one query per page of the longer edge when the
\* cursors it is handed are the ends of the pages, and the repository set is
\* then the union of the nodes of the owned pages and, unless contributed-to
\* repositories are ignored, of the contributed-to pages, without the
\* excluded identifiers.
C12_PaginationTermination ==
    \A p \in DOMAIN disc.passes :
        LET got == disc.passes[p].got
            pc == disc.passes[p].pc
        IN  /\ \A k \in DOMAIN got : k < Len(got) => FurtherPage(got[k])
            /\ pc = "query" /\ got # <<>> => FurtherPage(got[Len(got)])
            /\ pc = "done" =>
                 /\ got # <<>> /\ ~FurtherPage(got[Len(got)])
                 /\ ~disc.remote.nullCursor => Len(got) = LongerEdge(disc.remote)
                 /\ disc.repos[1] =
                        (EdgeNames(disc.remote.owned)
                         \cup (IF disc.cfg.ignore_forked THEN {}
                               ELSE EdgeNames(disc.remote.contrib)))
                        \ disc.cfg.exclude_repos

\* a pass has returned after two queries over edges of one and two pages,
\* with an excluded repository among the nodes
C12_Witness ==
    /\ Len(disc.passes) = 1
    /\ disc.passes[1].pc = "done"
    /\ Len(disc.passes[1].got) = 2
    /\ Len(disc.remote.owned) = 1
    /\ Len(disc.remote.contrib) = 2
    /\ "o/x" \in EdgeNames(disc.remote.contrib) \ disc.repos[1]

\* the node with an identifier
NodeNamed(name) == NodeTable[CHOOSE i \in DOMAIN NodeTable : NodeTable[i].name = name]

\* names that differ in the case of their letters only
CaseClasses ==
    { {"Python", "PYTHON", "python"}, {"C", "c"}, {"Go", "go", "GO"}, {"Rust", "rust"} }

SameIgnoringCase(a, b) == a = b \/ \E c \in CaseClasses : a \in c /\ b \in c

\* the language edges of a node that are not excluded, ignoring case
KeptEdges(name, cfg) ==
    LET node == NodeNamed(name)
        edges == IF node.languages = None THEN <<>> ELSE node.languages[1]
    IN  {k \in DOMAIN edges :
            \A x \in cfg.exclude_langs : ~SameIgnoringCase(edges[k].name, x)}

\* stars, forks, or bytes of one language, of one node, absent values as 0
NodeAmount(name, what, cfg) ==
    LET node == NodeNamed(name)
        edges == IF node.languages = None THEN <<>> ELSE node.languages[1]
        of(v) == IF v = None THEN 0 ELSE v[1]
        RECURSIVE bytes(_)
        bytes(K) == IF K = {} THEN 0
                    ELSE LET k == CHOOSE x \in K : TRUE
                         IN  of(edges[k].size) + bytes(K \ {k})
    IN  CASE what = "stargazers" -> of(node.totalCount)
          [] what = "forks" -> of(node.forkCount)
          [] OTHER -> bytes({k \in KeptEdges(name, cfg) : edges[k].name = what})

\* the amounts of the nodes in R, each node once
RECURSIVE TotalOver(_, _, _)
TotalOver(R, what, cfg) ==
    IF R = {} THEN 0
    ELSE LET n == CHOOSE x \in R : TRUE
         IN  NodeAmount(n, what, cfg) + TotalOver(R \ {n}, what, cfg)

\* the languages of the nodes in R that are not excluded
LanguagesOver(R, cfg) ==
    UNION { LET node == NodeNamed(n)
                edges == IF node.languages = None THEN <<>> ELSE node.languages[1]
            IN  {edges[k].name : k \in KeptEdges(n, cfg)} : n \in R }

\* C17: when a pass has completed, no excluded identifier is in the
\* repository set, no language equal to an excluded one ignoring case is a
\* key of the language map, and the stargazers, the forks and the size of
\* every language are the sums over the repository set with every
\* repository taken once, whatever the number of pages and streams it is in.
C17_DiscoveryFiltering ==
    (\E p \in DOMAIN disc.passes : disc.passes[p].pc = "done") =>
        LET R == disc.repos[1]
            languages == disc.languages[1]
        IN  /\ R \cap disc.cfg.exclude_repos = {}
            /\ \A L \in DOMAIN languages, x \in disc.cfg.exclude_langs :
                  ~SameIgnoringCase(L, x)
            /\ disc.stargazers[1] = TotalOver(R, "stargazers", disc.cfg)
            /\ disc.forks[1] = TotalOver(R, "forks", disc.cfg)
            /\ DOMAIN languages = LanguagesOver(R, disc.cfg)
            /\ \A L \in DOMAIN languages :
                  languages[L].size = TotalOver(R, L, disc.cfg)

\* a pass has completed over pages that hold o/b twice and the excluded o/x,
\* with Python excluded under the name PYTHON
C17_Witness ==
    /\ \E p \in DOMAIN disc.passes : disc.passes[p].pc = "done"
    /\ disc.remote.owned = <<1, 2>>
    /\ disc.cfg.exclude_repos = {"o/x"}
    /\ "PYTHON" \in disc.cfg.exclude_langs
    /\ disc.repos[1] = {"o/a", "o/b"}
    /\ DOMAIN disc.languages[1] = {"C"}
    /\ disc.stargazers[1] = 5

\* C20, repository half: whatever count, list or size the nodes lack, no
\* pass of get_stats is ended by an exception.
C20_MissingFieldsNeverFatal ==
    \A p \in DOMAIN disc.passes : disc.passes[p].pc # "raised"

\* The generators that main() starts together, each awaiting accessors of
\* the one Stats object; an await of the network lets the other tasks run.
InitOnce ==
    /\ CoreIdle
    /\ IdleBut("disc")
    /\ disc = DiscInit([exclude_repos |-> {}, exclude_langs |-> {}, ignore_forked |-> FALSE],
                       [owned |-> <<1, 2>>, contrib |-> <<3>>, nullCursor |-> FALSE])

NextOnce ==
    \/ \E t \in 1..NumTasks, accessor \in Accessors : AccessorCall(t, accessor)
    \/ \E p \in DOMAIN disc.passes : GetStatsPage(p)
    \/ \E t \in 1..NumTasks : AccessorResume(t)
    \/ \E t \in 1..NumTasks : TaskNext(t)

SpecOnce == InitOnce /\ [][NextOnce]_vars

\* C16: however the tasks interleave their awaits of the accessors, get_stats
\* is started at most once.
C16_DiscoveryBuiltOnce == Len(disc.passes) <= 1

\* ---------------------------------------------------------------------------
\* The Queries client: query, query_rest and the semaphore
\* ---------------------------------------------------------------------------

\* requests sent through the asynchronous transport and not yet answered
InFlight(n) == Cardinality({c \in DOMAIN n.callers : n.callers[c].pc = "primary"})

\* asyncio.Semaphore.acquire goes on without waiting
CanAcquireAlways(n) == TRUE

\* asyncio.Semaphore.acquire goes on when a slot is free
CanAcquire(n) == n.free > 0

\* the remote may still give the call of caller c an answer that leads to
\* another attempt
MayAskAgain(n, c) == n.callers[c].attempt <= n.patience

\* lines 87 and 126-128: the next pass of the loop of query_rest, or the
\* empty result after the last one
NextAttempt(caller) ==
    IF caller.attempt < AttemptLimit
    THEN [caller EXCEPT !.attempt = @ + 1, !.pc = "acquire"]
    ELSE [caller EXCEPT !.pc = "returned", !.result = "empty"]

\* a coroutine calls query (line 45) or query_rest (line 79) and reaches
\* the semaphore
Call(c, kind) ==
    /\ net.callers[c].pc = "idle"
    /\ net' = [net EXCEPT !.callers[c] =
                  [CallerIdle EXCEPT !.kind = kind, !.pc = "acquire", !.attempt = 1]]
    /\ UNCHANGED coreVars
    /\ UNCHANGED <<fp, disc, evAnswer, acc, boot>>

\* lines 55-60 and 95-100: a slot is taken and the request is sent through
\* the asynchronous transport
Acquire(c) ==
    /\ net.callers[c].pc = "acquire"
    /\ CanAcquire(net)
    /\ net' = [net EXCEPT !.free = @ - 1,
                          !.peak = IF InFlight(net) + 1 > @ THEN InFlight(net) + 1 ELSE @,
                          !.callers[c].pc = "primary",
                          !.callers[c].requests = @ + 1]
    /\ UNCHANGED coreVars
    /\ UNCHANGED <<fp, disc, evAnswer, acc, boot>>

\* The asynchronous request ends and the slot is released: the transport
\* raises (lines 66 and 111: on to the fallback), the answer is 202 (lines
\* 102-106, query_rest only: sleep), or an answer is there to be decoded.
PrimaryAnswer(c) ==
    /\ net.callers[c].pc = "primary"
    /\ \E outcome \in {"raise", "202", "answer"} :
         /\ outcome = "202" => net.callers[c].kind = "query_rest" /\ MayAskAgain(net, c)
         /\ net' = [net EXCEPT
                !.free = @ + 1,
                !.callers[c] =
                    CASE outcome = "raise" -> [@ EXCEPT !.pc = "fallback"]
                      [] outcome = "202" -> [@ EXCEPT !.pc = "sleep", !.last = "202"]
                      [] OTHER -> [@ EXCEPT !.pc = "decode"]]
    /\ UNCHANGED coreVars
    /\ UNCHANGED <<fp, disc, evAnswer, acc, boot>>

\* lines 61-63 and 108-110: the body is decoded.  A value is returned; a
\* null body makes query return the empty result (line 77) and query_rest
\* go to its next attempt; a body that does not decode raises, on to the
\* fallback.
Decode(c) ==
    /\ net.callers[c].pc = "decode"
    /\ \E outcome \in {"data", "null", "raise"} :
         /\ outcome = "null" /\ net.callers[c].kind = "query_rest" => MayAskAgain(net, c)
         /\ net' = [net EXCEPT !.callers[c] =
                CASE outcome = "data" ->
                        [@ EXCEPT !.pc = "returned", !.result = "data", !.last = "data"]
                  [] outcome = "null" /\ @.kind = "query" ->
                        [@ EXCEPT !.pc = "returned", !.result = "empty", !.last = "null"]
                  [] outcome = "null" -> NextAttempt([@ EXCEPT !.last = "null"])
                  [] OTHER -> [@ EXCEPT !.pc = "fallback"]]
    /\ UNCHANGED coreVars
    /\ UNCHANGED <<fp, disc, evAnswer, acc, boot>>

\* Lines 66-76 and 111-125: the fallback takes a slot and sends the request
\* through the synchronous transport, which answers before any other
\* coroutine runs.  An exception of the transport or of the decoding is not
\* caught.  query returns the value or, for a null body, the empty result;
\* query_rest sleeps inside the semaphore on 202, returns the body on 200,
\* and goes to its next attempt on any other status.
Fallback(c) ==
    /\ net.callers[c].pc = "fallback"
    /\ CanAcquire(net)
    /\ \E outcome \in {"raise", "data", "null", "202", "other"} :
         /\ outcome \in {"202", "other"} =>
                net.callers[c].kind = "query_rest" /\ MayAskAgain(net, c)
         /\ outcome = "null" => net.callers[c].kind = "query"
         /\ net' = [net EXCEPT
                !.free = IF outcome = "202" THEN @ - 1 ELSE @,
                !.peak = IF InFlight(net) + 1 > @ THEN InFlight(net) + 1 ELSE @,
                !.callers[c] =
                    LET sent == [@ EXCEPT !.requests = @ + 1]
                    IN  CASE outcome = "raise" ->
                                [sent EXCEPT !.pc = "raised", !.result = "raised"]
                          [] outcome = "data" ->
                                [sent EXCEPT !.pc = "returned", !.result = "data",
                                             !.last = "data"]
                          [] outcome = "null" ->
                                [sent EXCEPT !.pc = "returned", !.result = "empty",
                                             !.last = "null"]
                          [] outcome = "202" ->
                                [sent EXCEPT !.pc = "sleep_held", !.last = "202"]
                          [] OTHER -> NextAttempt([sent EXCEPT !.last = "other"])]
    /\ UNCHANGED coreVars
    /\ UNCHANGED <<fp, disc, evAnswer, acc, boot>>

\* lines 105-106 and 121-122: asyncio.sleep(2) is over; the sleep of the
\* fallback gives its slot back only now
Wake(c) ==
    /\ net.callers[c].pc \in {"sleep", "sleep_held"}
    /\ net' = [net EXCEPT !.free = IF net.callers[c].pc = "sleep_held" THEN @ + 1 ELSE @,
                          !.callers[c] = NextAttempt(@)]
    /\ UNCHANGED coreVars
    /\ UNCHANGED <<fp, disc, evAnswer, acc, boot>>

\* several coroutines call one client that has fewer slots than callers
InitGate ==
    /\ CoreIdle
    /\ IdleBut("net")
    /\ \E m \in 1..MaxConnections : net = NetInit(m, MaxPolls)

NextGate ==
    \/ \E c \in 1..NumCallers, kind \in {"query", "query_rest"} : Call(c, kind)
    \/ \E c \in 1..NumCallers : Acquire(c)
    \/ \E c \in 1..NumCallers : PrimaryAnswer(c)
    \/ \E c \in 1..NumCallers : Decode(c)
    \/ \E c \in 1..NumCallers : Fallback(c)
    \/ \E c \in 1..NumCallers : Wake(c)

SpecGate == InitGate /\ [][NextGate]_vars

\* C13: a call of query never ends with an exception.
C13_QueryNeverRaises ==
    \A c \in DOMAIN net.callers :
        net.callers[c].kind = "query" => net.callers[c].pc # "raised"

\* callers that hold a slot of the semaphore
Holding(n) ==
    Cardinality({c \in DOMAIN n.callers : n.callers[c].pc \in {"primary", "sleep_held"}})

\* C15: at every moment the requests sent and not yet answered, through
\* either transport, are at most max_connections; the slots held and the
\* free slots add up to max_connections, so a caller goes on only with a
\* slot that was free.
C15_BoundedConcurrency ==
    /\ InFlight(net) <= net.max_connections
    /\ net.peak <= net.max_connections
    /\ net.free >= 0
    /\ Holding(net) + net.free = net.max_connections

\* every slot carries a request in flight while another caller waits at the
\* semaphore, one for its first request or one for its fallback
C15_Witness ==
    /\ InFlight(net) = net.max_connections
    /\ net.free = 0
    /\ \E c \in DOMAIN net.callers : net.callers[c].pc \in {"acquire", "fallback"}
    /\ net.peak = net.max_connections

\* one coroutine calls query_rest, and the remote may answer every one of
\* the attempts with 202 or with anything else
InitRest ==
    /\ CoreIdle
    /\ IdleBut("net")
    /\ net = NetInit(1, AttemptLimit)

NextRest ==
    \/ Call(1, "query_rest")
    \/ Acquire(1)
    \/ PrimaryAnswer(1)
    \/ Decode(1)
    \/ Fallback(1)
    \/ Wake(1)

SpecRest == InitRest /\ [][NextRest]_vars

\* C14: query_rest makes at most 60 attempts; after an answer of 202 it
\* sleeps and asks again, and the call ends with the empty result only after
\* the 60th attempt; once an attempt is answered with another success, a
\* body that decodes to a value or to null, the call has returned with no
\* further request.
C14_RestPolling ==
    LET caller == net.callers[1]
    IN  caller.kind = "query_rest" =>
            /\ caller.attempt <= AttemptLimit
            /\ caller.requests <= 2 * AttemptLimit
            /\ caller.last \in {"data", "null"} => caller.pc = "returned"
            /\ caller.last = "202" /\ caller.pc = "returned" =>
                  caller.result = "empty" /\ caller.attempt = AttemptLimit

\* ---------------------------------------------------------------------------
\* The updated_at stamp of the persisted document
\* ---------------------------------------------------------------------------

\* a reconciler has called save_cache in this step
SavedInStep ==
    \/ Len(lcLog') > Len(lcLog) /\ lcLog'[Len(lcLog')].wrote
    \/ rcLog = None /\ rcLog' # None /\ rcLog'[1].wrote

\* C18: after every save_cache call of a reconciler the updated_at of the
\* persisted document is the time of that call.
C18_FreshUpdatedAt ==
    [][SavedInStep => DictGet(file'.doc, "updated_at") = Some(IsoFormat(clock'))]_vars

\* ---------------------------------------------------------------------------
\* Runs whose events request delivers an error object instead of a list
\* ---------------------------------------------------------------------------

\* A run starts as in RunStart, and the events request of this run will be
\* answered with a status that is not 202 and a JSON object such as
\* {"message": ...}, which query_rest returns as it is (lines 108-110).
RunStartError ==
    /\ phase = "idle"
    /\ run < MaxRuns
    /\ phase' = "running"
    /\ run' = run + 1
    /\ events' = <<>>
    /\ evAnswer' = "error"
    /\ rcCache' = load_cache(file).ret
    /\ pcRc' = "loaded"
    /\ pcLc' = "ready"
    /\ lcAtStart' = PersistedLc(file)
    /\ UNCHANGED <<file, clock, repos, lcCache, lcCall, lcLog, rcLog,
                   cacheArg, loadResult>>
    /\ UNCHANGED <<fp, disc, net, acc, boot>>

\* The exception leaves the reconciler, its generator and gather, and main
\* ends with it: nothing more is written.
Aborted ==
    /\ phase' = "aborted"
    /\ UNCHANGED <<file, clock, run, events, repos, pcRc, rcCache, pcLc, lcCache, lcCall,
                   lcLog, rcLog, lcAtStart, cacheArg, loadResult>>
    /\ UNCHANGED extVars

\* lines_changed_since, lines 587-588: iterating the object yields its keys,
\* and event.get on a string raises AttributeError
LcWarmError ==
    /\ phase = "running"
    /\ pcLc = "warm"
    /\ evAnswer = "error"
    /\ Aborted

\* recent_commit_fingerprints, lines 748-749: the same on the way of
\* recent_commits
RcError ==
    /\ phase = "running"
    /\ pcRc = "loaded"
    /\ evAnswer = "error"
    /\ Aborted

NextDegrade ==
    \/ RunStart
    \/ RunStartError
    \/ LcLoad
    \/ LcCold
    \/ evAnswer = "list" /\ LcWarm
    \/ evAnswer = "list" /\ RcFinish
    \/ LcWarmError
    \/ RcError
    \/ RunEnd

SpecDegrade == Init /\ [][NextDegrade]_vars

\* C19: whatever the events request delivers in place of an event list, no
\* run is aborted.
C19_GracefulDegradation == phase # "aborted"

\* ---------------------------------------------------------------------------
\* recent_commits with nothing cached and nothing new
\* ---------------------------------------------------------------------------

\* C21: when recent_commits finds the cached fingerprints empty or absent
\* and computes an empty list, it has saved an entry whose fingerprints are
\* the empty list, has sent no commit-detail request and has returned the
\* empty list.
C21_BothEmpty ==
    rcLog # None /\ rcLog[1].old_fps = <<>> /\ rcLog[1].new_fps = <<>> =>
        /\ rcLog[1].wrote
        /\ rcLog[1].after # None
        /\ rcLog[1].after[1].fingerprints = <<>>
        /\ rcLog[1].requests = <<>>
        /\ rcLog[1].commits = <<>>

\* the second run finds the empty list of the first in the cache, computes
\* an empty list again, and has saved it
C21_Witness ==
    /\ run = 2
    /\ rcCache # None
    /\ get_recent_commits(rcCache) # None
    /\ get_recent_commits(rcCache)[1].fingerprints = <<>>
    /\ rcLog # None
    /\ rcLog[1].new_fps = <<>>
    /\ rcLog[1].wrote
    /\ PersistedRc(file) # None
    /\ PersistedRc(file)[1].fingerprints = <<>>

\* ---------------------------------------------------------------------------
\* The sub-accessors of the cache document, called on any document
\* ---------------------------------------------------------------------------

\* the documents handed to a sub-accessor: none, or any document
AccCaches == {None} \cup {Some(d) : d \in Docs}

\* totals and watermarks handed to set_lines_changed
AccLines == {<<0, 0, IsoFormat(0)>>, <<5, 3, IsoFormat(1)>>}

\* fingerprint lists handed to set_recent_commits
AccFingerprints == {<<>>, <<Fingerprint(RepoOR, Commit(2).sha)>>}

\* cache_utils lines 51-54 and 79-82
AccGet ==
    /\ \E cache \in AccCaches, op \in {"get_lines_changed", "get_recent_commits"} :
         acc' = [op |-> op, cache |-> cache, args |-> <<>>,
                 result |-> IF op = "get_lines_changed" THEN get_lines_changed(cache)
                            ELSE get_recent_commits(cache)]
    /\ UNCHANGED coreVars
    /\ UNCHANGED <<fp, disc, net, evAnswer, boot>>

\* cache_utils lines 57-72
AccSetLines ==
    /\ \E cache \in AccCaches, a \in AccLines :
         acc' = [op |-> "set_lines_changed", cache |-> cache, args |-> a,
                 result |-> Some(set_lines_changed(cache, a[1], a[2], a[3]))]
    /\ UNCHANGED coreVars
    /\ UNCHANGED <<fp, disc, net, evAnswer, boot>>

\* cache_utils lines 85-97
AccSetRecent ==
    /\ \E cache \in AccCaches, fps \in AccFingerprints, now \in 0..MaxClock :
         acc' = [op |-> "set_recent_commits", cache |-> cache, args |-> <<fps, now>>,
                 result |-> Some(set_recent_commits(cache, fps, now))]
    /\ UNCHANGED coreVars
    /\ UNCHANGED <<fp, disc, net, evAnswer, boot>>

NextAcc == AccGet \/ AccSetLines \/ AccSetRecent

SpecAcc == Init /\ [][NextAcc]_vars

\* the namespace a sub-accessor is about
AccNamespace ==
    IF acc.op \in {"get_lines_changed", "set_lines_changed"} THEN "lines_changed"
    ELSE "recent_commits"

\* the entry a setter was told to store
AccEntry ==
    IF acc.op = "set_lines_changed"
    THEN [additions |-> acc.args[1], deletions |-> acc.args[2],
          last_commit_date |-> acc.args[3]]
    ELSE [fingerprints |-> acc.args[1], last_checked |-> IsoFormat(acc.args[2])]

\* C22: a getter gives nothing for no document and the entry of its
\* namespace, if there is one, otherwise; a setter gives, for no document, a
\* document that holds its namespace only and, for a document, that
\* document with its namespace replaced and every other field as it was.
C22_SubAccessors ==
    LET ns == AccNamespace
        absent == acc.cache = None
    IN  /\ acc.op \in {"get_lines_changed", "get_recent_commits"} =>
              /\ absent => acc.result = None
              /\ ~absent /\ ns \in DOMAIN acc.cache[1] => acc.result = Some(acc.cache[1][ns])
              /\ ~absent /\ ns \notin DOMAIN acc.cache[1] => acc.result = None
        /\ acc.op \in {"set_lines_changed", "set_recent_commits"} =>
              LET doc == acc.result[1]
              IN  /\ doc[ns] = AccEntry
                  /\ absent => DOMAIN doc = {ns}
                  /\ ~absent =>
                        /\ DOMAIN doc = DOMAIN acc.cache[1] \cup {ns}
                        /\ \A k \in DOMAIN acc.cache[1] \ {ns} : doc[k] = acc.cache[1][k]

\* set_recent_commits has replaced the entry of a document that holds both
\* namespaces, a version and a stamp
C22_Witness ==
    /\ acc.op = "set_recent_commits"
    /\ acc.cache # None
    /\ DOMAIN acc.cache[1] = DocKeys
    /\ acc.result[1]["recent_commits"] # acc.cache[1]["recent_commits"]
    /\ acc.result[1]["lines_changed"] = acc.cache[1]["lines_changed"]

\* ---------------------------------------------------------------------------
\* The start of a process: main reads its environment before anything else
\* ---------------------------------------------------------------------------

\* os.getenv: the variable is not set, set to the empty string, or set
EnvValues == {None, Some(""), Some("x")}

\* only a token that is not set stops main
ConfigMissingTokenOnly(main, token, user) == token = None

\* generate_images.main, lines 338-343: 'not access_token', then
\* 'user is None'; github_stats.main, lines 812-817: either is None
ConfigMissing(main, token, user) ==
    IF main = "generate_images"
    THEN token = None \/ token = Some("") \/ user = None
    ELSE token = None \/ user = None

\* a process is started, after the one before has ended
MainEnv ==
    /\ phase = "idle"
    /\ run < MaxRuns
    /\ \/ boot.pc \in {"none", "raised"}
       \/ boot.pc = "gather" /\ run > boot.run0
    /\ \E main \in {"generate_images", "github_stats"}, token \in EnvValues,
          user \in EnvValues :
         boot' = [main |-> main, token |-> token, user |-> user, pc |-> "start",
                  run0 |-> run]
    /\ UNCHANGED coreVars
    /\ UNCHANGED <<fp, disc, net, evAnswer, acc>>

\* main checks the token and the user name and raises, or opens the session
\* and goes on to the work of the run
MainCheck ==
    /\ boot.pc = "start"
    /\ boot' = [boot EXCEPT !.pc = IF ConfigMissing(boot.main, boot.token, boot.user)
                                   THEN "raised" ELSE "gather"]
    /\ UNCHANGED coreVars
    /\ UNCHANGED <<fp, disc, net, evAnswer, acc>>

\* the work of the run is that of lines_changed: the events request, the
\* reading and the writing of the cache file
NextMain ==
    \/ MainEnv
    \/ MainCheck
    \/ boot.pc = "gather" /\ run = boot.run0 /\ LcRunStart
    \/ LcLoad
    \/ LcCold
    \/ LcWarm
    \/ RunEnd

SpecMain == Init /\ [][NextMain]_vars

\* C23: in a process whose token or user name is not set, main raises at
\* its check, and no step of the process sends a request or reads or
\* writes the cache file.
C23_ConfigErrorsFirst ==
    [][boot.pc # "none" /\ (boot.token = None \/ boot.user = None) =>
          /\ UNCHANGED coreVars
          /\ boot.pc = "start" => boot'.pc \in {"start", "raised"}]_vars

\* after a process that ran and left a cache file, a process whose user name
\* is not set has raised
C23_Witness ==
    /\ boot.pc = "raised"
    /\ boot.token = Some("x")
    /\ boot.user = None
    /\ run = 1
    /\ file.kind = "object"

\* ---------------------------------------------------------------------------
\* The shares of the languages
\* ---------------------------------------------------------------------------

\* the numerators of the shares of the languages in S
RECURSIVE ShareSum(_, _)
ShareSum(languages, S) ==
    IF S = {} THEN 0
    ELSE LET n == CHOOSE x \in S : TRUE
         IN  languages[n].prop[1][1] + ShareSum(languages, S \ {n})

\* a pass was ended by an exception after its last page, with every node of
\* its pages added
RaisedAtShares(p) ==
    /\ disc.passes[p].pc = "raised"
    /\ ~FurtherPage(disc.passes[p].got[Len(disc.passes[p].got)])
    /\ \A n \in disc.repos[1] : NodeNamed(n).hasStargazers

\* C24: when a pass has completed, every language has the share 100 * size
\* / total, and the shares of a non-empty map add up to 100; and no pass
\* is ended by an exception where the shares are computed, whatever the
\* sizes are.
C24_LanguageShares ==
    \A p \in DOMAIN disc.passes :
        /\ ~RaisedAtShares(p)
        /\ disc.passes[p].pc = "done" =>
              LET languages == disc.languages[1]
                  total == SizeSum(languages, DOMAIN languages)
              IN  /\ \A L \in DOMAIN languages :
                        languages[L].prop = Some(<<100 * languages[L].size, total>>)
                  /\ DOMAIN languages # {} =>
                        total > 0 /\ ShareSum(languages, DOMAIN languages) = 100 * total

\* ---------------------------------------------------------------------------
\* The two reconcilers on one cache file
\* ---------------------------------------------------------------------------

\* the lines_changed calls of the run that saved
SavingCalls == {i \in DOMAIN lcLog : lcLog[i].wrote}

\* C25: once lines_changed and recent_commits of a run have both finished,
\* the file holds the lines_changed entry of the last save of lines_changed
\* and the recent_commits entry of the save of recent_commits, if they
\* saved.
C25_NoLostUpdate ==
    phase = "running" /\ pcRc = "done" /\ pcLc = "done" =>
        /\ SavingCalls # {} =>
              PersistedLc(file) =
                  lcLog[CHOOSE i \in SavingCalls : \A j \in SavingCalls : j <= i].after
        /\ rcLog # None /\ rcLog[1].wrote => PersistedRc(file) = rcLog[1].after

\* ---------------------------------------------------------------------------
\* Push events that list the same commit
\* ---------------------------------------------------------------------------

\* two pushes of o/r, to two branches, that both list the commit bbbbbbb2
DupPool ==
    << PushEvent(RepoOR, Some(Commit(6).sha), <<Commit(2).sha, Commit(6).sha>>),
       PushEvent(RepoOR, Some(Commit(2).sha), <<Commit(2).sha>>) >>

\* the event lists of a run: any pushes of the pool, most recent first
DupEventLists ==
    {SelectSeq(DupPool, LAMBDA e : e \in S) : S \in SUBSET {DupPool[k] : k \in DOMAIN DupPool}}

\* a run of lines_changed alone, as LcRunStart, on such an event list
LcRunStartDup ==
    /\ UNCHANGED extVars
    /\ phase = "idle"
    /\ run < MaxRuns
    /\ phase' = "running"
    /\ run' = run + 1
    /\ \E ev \in DupEventLists : events' = ev
    /\ pcRc' = "done"
    /\ pcLc' = "ready"
    /\ lcAtStart' = PersistedLc(file)
    /\ UNCHANGED <<file, clock, repos, rcCache, lcCache, lcCall, lcLog, rcLog,
                   cacheArg, loadResult>>

NextDup == LcRunStartDup \/ LcLoad \/ LcCold \/ LcWarm \/ RunEnd

SpecDup == Init /\ [][NextDup]_vars

\* the commits with stats that the events list, each once, dated after w
DistinctLater(w) ==
    {i \in DOMAIN CommitTable :
        /\ CommitTable[i].detail = "full"
        /\ FromIso(CommitTable[i].date) > FromIso(w)
        /\ \E k \in DOMAIN events :
              /\ events[k].type = "PushEvent"
              /\ events[k].repo = CommitTable[i].repo
              /\ \E c \in DOMAIN events[k].commits :
                    events[k].commits[c] = CommitTable[i].sha}

\* the additions or deletions of the commits in S, each once
RECURSIVE OnceEach(_, _)
OnceEach(S, field) ==
    IF S = {} THEN 0
    ELSE LET i == CHOOSE x \in S : TRUE
         IN  (IF field = "additions" THEN CommitTable[i].additions
              ELSE CommitTable[i].deletions) + OnceEach(S \ {i}, field)

\* C26: a warm call raises the totals by no more than the additions and
\* deletions of the distinct commits listed, however many push events list
\* them.
C26_NoCommitTwice ==
    \A i \in WarmCalls :
        LET lc == lcLog[i].cached[1]
            S == DistinctLater(lc.last_commit_date)
        IN  /\ lcLog[i].ret[1] - lc.additions <= OnceEach(S, "additions")
            /\ lcLog[i].ret[2] - lc.deletions <= OnceEach(S, "deletions")

\* ---------------------------------------------------------------------------
\* The slots of the semaphore over the life of the calls
\* ---------------------------------------------------------------------------

\* C27: whenever no request is in flight every slot is free; in particular
\* a call that has returned or raised holds no slot.
C27_NoSlotLeak ==
    InFlight(net) = 0 => net.free = net.max_connections

\* ---------------------------------------------------------------------------
\* Passes of get_stats that overlap
\* ---------------------------------------------------------------------------

\* the identifiers one pass over the pages of the remote collects
OnePassNames(remote, cfg) ==
    (EdgeNames(remote.owned)
     \cup (IF cfg.ignore_forked THEN {} ELSE EdgeNames(remote.contrib)))
    \ cfg.exclude_repos

\* C28: when two or more passes of get_stats were started before the first
\* had finished and all of them have finished, the repository set, the
\* stargazers, the forks and the size of every language are those of one
\* pass over the same pages: every repository once, none lost.
C28_OverlappingPasses ==
    (Len(disc.passes) >= 2 /\ \A p \in DOMAIN disc.passes : disc.passes[p].pc = "done") =>
        LET R == OnePassNames(disc.remote, disc.cfg)
            languages == disc.languages[1]
        IN  /\ disc.repos[1] = R
            /\ disc.stargazers[1] = TotalOver(R, "stargazers", disc.cfg)
            /\ disc.forks[1] = TotalOver(R, "forks", disc.cfg)
            /\ DOMAIN languages = LanguagesOver(R, disc.cfg)
            /\ \A L \in DOMAIN languages :
                  languages[L].size = TotalOver(R, L, disc.cfg)

\* two passes, each of two queries, have finished over pages that hold o/b
\* twice
C28_Witness ==
    /\ Len(disc.passes) = 2
    /\ \A p \in DOMAIN disc.passes :
          disc.passes[p].pc = "done" /\ Len(disc.passes[p].got) = 2
    /\ disc.repos[1] = OnePassNames(disc.remote, disc.cfg)
    /\ "o/b" \in EdgeNames(<<disc.remote.owned[1]>>) \cap EdgeNames(<<disc.remote.owned[2]>>)

\* ---------------------------------------------------------------------------
\* What an accessor returns while get_stats is running
\* ---------------------------------------------------------------------------

\* the accessors of the totals that get_stats computes
TotalAccessors == {"stargazers", "forks", "repos", "languages"}

\* C29: no await of stargazers, forks, repos or languages has returned
\* while a pass of get_stats is still asking for pages.
C29_NeverHalfComputed ==
    \A t \in DOMAIN disc.tasks :
        disc.tasks[t].pc = "returned" /\ disc.tasks[t].accessor \in TotalAccessors =>
            \A p \in DOMAIN disc.passes : disc.passes[p].pc # "query"

\* ---------------------------------------------------------------------------
\* The version of the persisted document
\* ---------------------------------------------------------------------------

\* C30: the file the runs have written is a JSON object whose version is
\* the expected one, and load_cache returns it.
C30_AlwaysLoadable ==
    file # FileMissing =>
        /\ file.kind = "object"
        /\ "version" \in DOMAIN file.doc
        /\ file.doc["version"] = CACHE_VERSION
        /\ load_cache(file) = [raised |-> FALSE, ret |-> Some(file.doc)]

\* the second run has loaded the document of the first and recent_commits
\* has saved it again, with both entries in it
C30_Witness ==
    /\ run = 2
    /\ rcCache # None
    /\ rcCache[1]["version"] = CACHE_VERSION
    /\ rcLog # None
    /\ rcLog[1].wrote
    /\ file.kind = "object"
    /\ {"version", "lines_changed", "recent_commits"} \subseteq DOMAIN file.doc
    /\ file.doc["version"] = CACHE_VERSION
====
